---- MODULE Spec2Model ----
(***************************************************************************)
(* git-ignore: a model of src/main.rs.                                     *)
(*                                                                         *)
(* Strings are sequences of code points (naturals), so that the raw        *)
(* ordering of Rust's str (bytewise lexicographic) is the lexicographic    *)
(* ordering of the sequences.                                              *)
(***************************************************************************)
EXTENDS Naturals, Sequences, FiniteSets

VARIABLES
    pc,             \* position of the run
    opts,           \* the option tokens of the command line, in order
    optind,         \* number of option tokens getopt has consumed
    mode,           \* `mode` of program()
    args,           \* the positional patterns
    file,           \* the path get_file resolved ("" before)
    dirsMade,       \* a parent directory tree was created by resolution
    targetExists,   \* the target path holds a file
    targetContent,  \* its content (<<>> while absent)
    origExists,     \* targetExists when the run started
    origContent,    \* targetContent when the run started
    old,            \* `old` of update()
    new,            \* `new` of update()
    tmpExists,      \* the temporary file of the atomic write exists
    tmpContent,     \* its content
    outcome,        \* "running", "ok" (exit 0), "usage" (exit 1), "error"
    conds,          \* error conditions the environment raised in this run
    resolved,       \* number of calls of get_file
    decided,        \* update took the branch that writes
    again,          \* merge(new, [])
    permArgs,       \* a rearrangement of args
    perm            \* merge(old, permArgs)

vars == <<pc, opts, optind, mode, args, file, dirsMade, targetExists,
          targetContent, origExists, origContent, old, new, tmpExists,
          tmpContent, outcome, conds, resolved, decided, again, permArgs,
          perm>>

----------------------------------------------------------------------------
(* Bounds of the model *)

MaxTotalLen == 3    \* characters of the existing text and the patterns together
MaxPats == 2        \* number of positional patterns
MaxFlags == 2       \* number of option tokens on the command line

----------------------------------------------------------------------------
(* Characters *)

NL == 10            \* '\n'
CR == 13            \* '\r'
Bang == 33          \* '!'
Hash == 35          \* '#'
Letters == {97}     \* 'a'

\* char::is_whitespace on the ASCII range: \t \n \v \f \r and space
WhiteSpace == {9, 10, 11, 12, 13, 32}

\* the characters of the texts and patterns of the model: the line feed, a
\* white space that is also part of the line ending "\r\n", the two
\* characters merge looks for, and a letter
Chars == {NL, CR, Bang, Hash} \cup Letters

Strs(n) == UNION {[1..k -> Chars] : k \in 0..n}

Range(s) == {s[i] : i \in 1..Len(s)}

----------------------------------------------------------------------------
(* std: str::trim, str::lines, Ord for str, starts_with *)

RECURSIVE trim_start(_)
trim_start(s) ==
    IF s # <<>> /\ Head(s) \in WhiteSpace THEN trim_start(Tail(s)) ELSE s

RECURSIVE trim_end(_)
trim_end(s) ==
    IF s # <<>> /\ s[Len(s)] \in WhiteSpace
    THEN trim_end(SubSeq(s, 1, Len(s) - 1))
    ELSE s

trim(s) == trim_end(trim_start(s))

starts_with(s, c) == s # <<>> /\ Head(s) = c

\* one piece of split_inclusive('\n') with its line ending removed: the
\* '\n', and a '\r' right before it (a '\r' that ends the text stays, and
\* is white space to trim)
LinesMap(piece) ==
    IF piece # <<>> /\ piece[Len(piece)] = NL
    THEN LET l == SubSeq(piece, 1, Len(piece) - 1)
         IN  IF l # <<>> /\ l[Len(l)] = CR THEN SubSeq(l, 1, Len(l) - 1) ELSE l
    ELSE piece

\* position of the first '\n' of s, 0 when there is none
FirstNL(s) ==
    IF \E i \in 1..Len(s) : s[i] = NL
    THEN CHOOSE i \in 1..Len(s) : s[i] = NL /\ \A j \in 1..(i - 1) : s[j] # NL
    ELSE 0

\* text.lines(): the sequence of lines of text
RECURSIVE lines(_)
lines(text) ==
    IF text = <<>> THEN <<>>
    ELSE LET i == FirstNL(text)
         IN  IF i = 0 THEN <<LinesMap(text)>>
             ELSE <<LinesMap(SubSeq(text, 1, i))>>
                  \o lines(SubSeq(text, i + 1, Len(text)))

\* a < b in the ordering of str
RECURSIVE StrLess(_, _)
StrLess(a, b) ==
    IF a = <<>> THEN b # <<>>
    ELSE IF b = <<>> THEN FALSE
    ELSE IF Head(a) # Head(b) THEN Head(a) < Head(b)
    ELSE StrLess(Tail(a), Tail(b))

StrLeq(a, b) == a = b \/ StrLess(a, b)

----------------------------------------------------------------------------
(* merge (main.rs 147-185) *)

\* the HashSet `lines`: the lines of text and the arguments
Collect(text, patterns) == Range(lines(text)) \cup Range(patterns)

\* the orders in which into_iter may yield the members of the HashSet
RECURSIVE IterOrders(_)
IterOrders(S) ==
    IF S = {} THEN {<<>>}
    ELSE UNION {{<<x>> \o t : t \in IterOrders(S \ {x})} : x \in S}

\* the filter_map closure keeps a trimmed line
Keep(line) == ~(line = <<>> \/ starts_with(line, Hash))

Trimmed(seq) == [i \in 1..Len(seq) |-> trim(seq[i])]

filter_map(seq) == SelectSeq(Trimmed(seq), Keep)

RECURSIVE Insert(_, _)
Insert(x, s) ==
    IF s = <<>> THEN <<x>>
    ELSE IF StrLeq(x, Head(s)) THEN <<x>> \o s
    ELSE <<Head(s)>> \o Insert(x, Tail(s))

RECURSIVE SortAsc(_)
SortAsc(s) == IF s = <<>> THEN <<>> ELSE Insert(Head(s), SortAsc(Tail(s)))

sort_unstable_unsorted(s) == s

\* lines.sort_unstable(): equal strings are indistinguishable, so the result
\* is the ascending arrangement
sort_unstable(s) == SortAsc(s)

dedup_none(s) == s

\* Vec::dedup: removes consecutive repeated elements
RECURSIVE dedup(_)
dedup(s) ==
    IF Len(s) < 2 THEN s
    ELSE IF s[1] = s[2] THEN dedup(Tail(s))
    ELSE <<Head(s)>> \o dedup(Tail(s))

IsNeg(l) == starts_with(l, Bang)
IsPos(l) == ~IsNeg(l)

\* partition, clear, extend(pos), extend(neg)
partition(s) == SelectSeq(s, IsPos) \o SelectSeq(s, IsNeg)

RECURSIVE join(_)
join(s) ==
    IF s = <<>> THEN <<>>
    ELSE IF Len(s) = 1 THEN s[1]
    ELSE s[1] \o <<NL>> \o join(Tail(s))

\* join("\n") and the trailing newline of a non-empty text
render(s) == LET text == join(s) IN IF text # <<>> THEN text \o <<NL>> ELSE text

\* the text merge returns when the HashSet is iterated in the order `it`
mergeFrom(it) == render(partition(dedup(sort_unstable(filter_map(it)))))

\* the texts merge(text, patterns) may return
merge(text, patterns) == {mergeFrom(it) : it \in IterOrders(Collect(text, patterns))}

----------------------------------------------------------------------------
(* Mode and the command line (main.rs 35-71) *)

File(n) == [kind |-> "File", name |-> n]
Global == [kind |-> "Global", name |-> ""]
Internal == [kind |-> "Internal", name |-> ""]
Root == [kind |-> "Root", name |-> ""]

\* let mut mode = Mode::File(".gitignore".to_string())
DefaultMode == File(".gitignore")

\* the FILE arguments of -f on the command lines of the model
FileNames == {"A", "B"}

ModeFlags == {"f", "g", "i", "r"}

\* what getopt's parser yields for "f:ghir": an option with its argument,
\* or an error ("?") for a letter outside the option string
OptTokens ==
    {[flag |-> "f", arg |-> n] : n \in FileNames}
        \cup {[flag |-> x, arg |-> ""] : x \in {"g", "i", "r", "h", "?"}}

\* the mode each mode-setting option stands for
ModeOf(o) ==
    CASE o.flag = "f" -> File(o.arg)
      [] o.flag = "g" -> Global
      [] o.flag = "i" -> Internal
      [] o.flag = "r" -> Root

SetModeFirstWins(cur, o) == IF cur = DefaultMode THEN ModeOf(o) ELSE cur

\* the assignment `mode = ...` of the four mode-setting arms
SetMode(cur, o) == ModeOf(o)

----------------------------------------------------------------------------
(* Inputs *)

\* the ways to cut a string s into a text and k patterns: c[0] ends the
\* text, c[i] ends pattern i
CutLists(s, k) ==
    {c \in [0..k -> 0..Len(s)] :
        /\ c[k] = Len(s)
        /\ \A i \in 1..k : c[i - 1] <= c[i]}

TextOf(s, c) == SubSeq(s, 1, c[0])

PatsOf(s, k, c) == [i \in 1..k |-> SubSeq(s, c[i - 1] + 1, c[i])]

\* the orders of the elements of a list
Permutations(p) ==
    {[i \in 1..Len(p) |-> p[f[i]]] : f \in IterOrders(1..Len(p))}

\* the same patterns in another order, possibly with one of them repeated
Rearrangements(p) ==
    Permutations(p) \cup {Append(q, q[i]) : <<q, i>> \in Permutations(p) \X (1..Len(p))}

----------------------------------------------------------------------------
(* merge as a function: merge(T, P), merge(merge(T, P), []), merge(T, P') *)

Idle ==
    /\ opts = <<>> /\ optind = 0 /\ mode = DefaultMode /\ file = <<>>
    /\ dirsMade = FALSE /\ targetExists = FALSE /\ targetContent = <<>>
    /\ origExists = FALSE /\ origContent = <<>>
    /\ tmpExists = FALSE /\ tmpContent = <<>>
    /\ outcome = "running" /\ conds = {} /\ resolved = 0 /\ decided = FALSE

InitMerge ==
    /\ \E s \in Strs(MaxTotalLen), k \in 0..MaxPats :
         \E c \in CutLists(s, k) :
            /\ old = TextOf(s, c)
            /\ args = PatsOf(s, k, c)
    /\ pc = "merge"
    /\ new = <<>> /\ again = <<>> /\ permArgs = <<>> /\ perm = <<>>
    /\ Idle

runVars == <<opts, optind, mode, file, dirsMade, targetExists, targetContent,
             origExists, origContent, tmpExists, tmpContent, outcome, conds,
             resolved, decided>>

MergeCall ==
    /\ pc = "merge"
    /\ new' \in merge(old, args)
    /\ pc' = "again"
    /\ UNCHANGED <<old, args, again, permArgs, perm, runVars>>

MergeAgain ==
    /\ pc = "again"
    /\ again' \in merge(new, <<>>)
    /\ pc' = "perm"
    /\ UNCHANGED <<old, args, new, permArgs, perm, runVars>>

MergePermuted ==
    /\ pc = "perm"
    /\ permArgs' \in Rearrangements(args)
    /\ perm' \in merge(old, permArgs')
    /\ pc' = "finished"
    /\ UNCHANGED <<old, args, new, again, runVars>>

NextMerge == MergeCall \/ MergeAgain \/ MergePermuted

SpecMerge == InitMerge /\ [][NextMerge]_vars

----------------------------------------------------------------------------
(* The run: program (35-64), update (73-96), get_file (98-145) *)

\* a step that ends the run with the error(s) c
Fail(c) ==
    /\ pc' = "done"
    /\ outcome' = "error"
    /\ conds' = conds \cup c

mergeVars == <<again, permArgs, perm>>
fsVars == <<targetExists, targetContent, tmpExists, tmpContent, dirsMade>>
origVars == <<origExists, origContent>>

\* Opt('f', Some(arg)), Opt('g', None), Opt('i', None), Opt('r', None)
ParseModeOpt ==
    /\ pc = "parse" /\ optind < Len(opts)
    /\ opts[optind + 1].flag \in ModeFlags
    /\ mode' = SetMode(mode, opts[optind + 1])
    /\ optind' = optind + 1
    /\ UNCHANGED <<pc, opts, args, file, old, new, outcome, conds, resolved,
                   decided, fsVars, origVars, mergeVars>>

\* Opt('h', None): print_usage, return Ok(0)
ParseHelp ==
    /\ pc = "parse" /\ optind < Len(opts)
    /\ opts[optind + 1].flag = "h"
    /\ pc' = "done" /\ outcome' = "ok"
    /\ optind' = optind + 1
    /\ UNCHANGED <<opts, mode, args, file, old, new, conds, resolved,
                   decided, fsVars, origVars, mergeVars>>

\* opts.next().transpose()? on a parse error
ParseError ==
    /\ pc = "parse" /\ optind < Len(opts)
    /\ opts[optind + 1].flag = "?"
    /\ Fail({"getopt"})
    /\ UNCHANGED <<opts, optind, mode, args, file, old, new, resolved,
                   decided, fsVars, origVars, mergeVars>>

\* args.is_empty(): usage line, return Ok(1)
NoPatterns ==
    /\ pc = "parse" /\ optind = Len(opts)
    /\ args = <<>>
    /\ pc' = "done" /\ outcome' = "usage"
    /\ UNCHANGED <<opts, optind, mode, args, file, old, new, conds, resolved,
                   decided, fsVars, origVars, mergeVars>>

\* update(mode, args)
CallUpdate ==
    /\ pc = "parse" /\ optind = Len(opts)
    /\ args # <<>>
    /\ pc' = "get_file"
    /\ UNCHANGED <<opts, optind, mode, args, file, old, new, outcome, conds,
                   resolved, decided, fsVars, origVars, mergeVars>>

Outcomes == {"Ok", "Err"}

\* Mode::File(name) => Ok(env::current_dir()?.join(name))
FileMode ==
    /\ pc = "get_file" /\ mode.kind = "File"
    /\ resolved' = resolved + 1
    /\ \E cwd \in Outcomes :
         IF cwd = "Ok"
         THEN /\ file' = <<"cwd", mode.name>>
              /\ pc' = "read"
              /\ UNCHANGED <<outcome, conds>>
         ELSE /\ Fail({"current_dir"})
              /\ UNCHANGED file
    /\ UNCHANGED <<opts, optind, mode, args, old, new, decided, fsVars,
                   origVars, mergeVars>>

\* what Config::get_path("core.excludesFile") may return: the path, or a
\* git2 error with its class and code
NoError == [class |-> "None", code |-> "Ok"]
SettingNotFound == [class |-> "Config", code |-> "NotFound"]
StoreResults ==
    {NoError, SettingNotFound,
     [class |-> "Config", code |-> "GenericError"],
     [class |-> "Os", code |-> "NotFound"]}

\* the condition a store error is
StoreCond(e) == IF e = SettingNotFound THEN "config_not_found" ELSE "config_other"

IsSettingNotFoundAnyClass(e) == e.code = "NotFound"

\* error.class() == ErrorClass::Config && error.code() == ErrorCode::NotFound
IsSettingNotFound(e) == e.class = "Config" /\ e.code = "NotFound"

global_ignore_file ==
    /\ pc = "get_file" /\ mode.kind = "Global"
    /\ resolved' = resolved + 1
    /\ \E open \in Outcomes, r \in StoreResults, dir \in {"Some", "None"}, mk \in Outcomes :
         IF open = "Err"
         THEN Fail({"config_open"}) /\ UNCHANGED <<file, dirsMade>>
         ELSE IF r = NoError
         THEN /\ file' = <<"core.excludesFile">>
              /\ pc' = "read"
              /\ UNCHANGED <<outcome, conds, dirsMade>>
         ELSE IF IsSettingNotFound(r)
         THEN IF dir = "None"
              THEN Fail({StoreCond(r), "no_config_dir"}) /\ UNCHANGED <<file, dirsMade>>
              ELSE IF mk = "Err"
              THEN Fail({StoreCond(r), "create_dir"}) /\ UNCHANGED <<file, dirsMade>>
              ELSE /\ dirsMade' = TRUE
                   /\ file' = <<"config_dir", "git", "ignore">>
                   /\ pc' = "read"
                   /\ conds' = conds \cup {StoreCond(r)}
                   /\ UNCHANGED outcome
         ELSE Fail({StoreCond(r)}) /\ UNCHANGED <<file, dirsMade>>
    /\ UNCHANGED <<opts, optind, mode, args, old, new, decided, targetExists,
                   targetContent, tmpExists, tmpContent, origVars, mergeVars>>

\* the path rebuilt from its components
fix_path(path) == [i \in 1..Len(path) |-> path[i]]

internal_ignore_file_creating ==
    /\ pc = "get_file" /\ mode.kind = "Internal"
    /\ resolved' = resolved + 1
    /\ file' = fix_path(<<"gitdir">>) \o <<"info", "exclude">>
    /\ pc' = "read"
    /\ dirsMade' = TRUE
    /\ targetExists' = TRUE
    /\ UNCHANGED <<outcome, conds>>
    /\ UNCHANGED <<opts, optind, mode, args, old, new, decided,
                   targetContent, tmpExists, tmpContent, origVars, mergeVars>>

internal_ignore_file ==
    /\ pc = "get_file" /\ mode.kind = "Internal"
    /\ resolved' = resolved + 1
    /\ \E repo \in Outcomes, mk \in Outcomes :
         IF repo = "Err"
         THEN Fail({"repository"}) /\ UNCHANGED <<file, dirsMade>>
         ELSE IF mk = "Err"
         THEN Fail({"create_dir"}) /\ UNCHANGED <<file, dirsMade>>
         ELSE /\ dirsMade' = TRUE
              /\ file' = fix_path(<<"gitdir">>) \o <<"info", "exclude">>
              /\ pc' = "read"
              /\ UNCHANGED <<outcome, conds>>
    /\ UNCHANGED <<opts, optind, mode, args, old, new, decided, targetExists,
                   targetContent, tmpExists, tmpContent, origVars, mergeVars>>

root_ignore_file ==
    /\ pc = "get_file" /\ mode.kind = "Root"
    /\ resolved' = resolved + 1
    /\ \E repo \in Outcomes, workdir \in {"Some", "None"} :
         IF repo = "Err"
         THEN Fail({"repository"}) /\ UNCHANGED file
         ELSE IF workdir = "None"
         THEN Fail({"bare"}) /\ UNCHANGED file
         ELSE /\ file' = <<"workdir", ".gitignore">>
              /\ pc' = "read"
              /\ UNCHANGED <<outcome, conds>>
    /\ UNCHANGED <<opts, optind, mode, args, old, new, decided, fsVars,
                   origVars, mergeVars>>

\* what fs::read_to_string(&file) may return
ReadResults ==
    IF targetExists
    THEN {"Ok", "PermissionDenied", "InvalidData"}
    ELSE {"NotFound", "PermissionDenied"}

\* the condition a read error is
ReadCond(r) == IF r = "NotFound" THEN "read_not_found" ELSE "read_other"

\* e.kind() != io::ErrorKind::NotFound returns the error
ReadRecovers(kind) == kind = "NotFound"

\* fs::read_to_string(&file).or_else(...)?
ReadToString ==
    /\ pc = "read"
    /\ \E r \in ReadResults, cr \in Outcomes :
         IF r = "Ok"
         THEN /\ old' = targetContent
              /\ pc' = "merge"
              /\ UNCHANGED <<outcome, conds, targetExists, targetContent>>
         ELSE IF ReadRecovers(r)
         THEN IF cr = "Ok"
              THEN \* fs::File::create(&file): the file exists and is empty
                   /\ targetExists' = TRUE
                   /\ targetContent' = <<>>
                   /\ old' = <<>>
                   /\ pc' = "merge"
                   /\ conds' = conds \cup {ReadCond(r)}
                   /\ UNCHANGED outcome
              ELSE /\ Fail({ReadCond(r), "create"})
                   /\ UNCHANGED <<old, targetExists, targetContent>>
         ELSE /\ Fail({ReadCond(r)})
              /\ UNCHANGED <<old, targetExists, targetContent>>
    /\ UNCHANGED <<opts, optind, mode, args, file, new, resolved, decided,
                   tmpExists, tmpContent, dirsMade, origVars, mergeVars>>

\* let new = merge(&old, &args)
Merge ==
    /\ pc = "merge"
    /\ new' \in merge(old, args)
    /\ pc' = "compare"
    /\ UNCHANGED <<opts, optind, mode, args, file, old, outcome, conds,
                   resolved, decided, fsVars, origVars, mergeVars>>

NoChangeTrimmed(n, o) == trim(n) = o

\* new == old
NoChange(n, o) == n = o

\* "Nothing to do!", Ok(0)
NothingToDo ==
    /\ pc = "compare"
    /\ NoChange(new, old)
    /\ pc' = "done" /\ outcome' = "ok"
    /\ UNCHANGED <<opts, optind, mode, args, file, old, new, conds, resolved,
                   decided, fsVars, origVars, mergeVars>>

BeginWriteInPlace ==
    /\ pc = "compare"
    /\ ~NoChange(new, old)
    /\ decided' = TRUE
    /\ pc' = "atomic_tmp"
    /\ targetContent' = <<>>
    /\ UNCHANGED <<opts, optind, mode, args, file, old, new, outcome, conds,
                   resolved, targetExists, tmpExists, tmpContent, dirsMade,
                   origVars, mergeVars>>

\* the else branch: AtomicFile::new(&file, AllowOverwrite).write(...) is called
BeginWrite ==
    /\ pc = "compare"
    /\ ~NoChange(new, old)
    /\ decided' = TRUE
    /\ pc' = "atomic_tmp"
    /\ UNCHANGED <<opts, optind, mode, args, file, old, new, outcome, conds,
                   resolved, fsVars, origVars, mergeVars>>

\* AtomicFile::write: a temporary file is created beside the target
AtomicCreateTmp ==
    /\ pc = "atomic_tmp"
    /\ \E r \in Outcomes :
         IF r = "Ok"
         THEN /\ tmpExists' = TRUE /\ tmpContent' = <<>>
              /\ pc' = "atomic_write"
              /\ UNCHANGED <<outcome, conds>>
         ELSE /\ Fail({"tmp_create"})
              /\ UNCHANGED <<tmpExists, tmpContent>>
    /\ UNCHANGED <<opts, optind, mode, args, file, old, new, resolved, decided,
                   targetExists, targetContent, dirsMade, origVars, mergeVars>>

\* f.write_all(new.as_bytes()): some more bytes of new reach the temporary file
AtomicWriteChunk ==
    /\ pc = "atomic_write"
    /\ Len(tmpContent) < Len(new)
    /\ \E n \in (Len(tmpContent) + 1)..Len(new) : tmpContent' = SubSeq(new, 1, n)
    /\ UNCHANGED <<pc, opts, optind, mode, args, file, old, new, outcome, conds,
                   resolved, decided, targetExists, targetContent, tmpExists,
                   dirsMade, origVars, mergeVars>>

\* f.write_all fails: the temporary file is dropped
AtomicWriteFail ==
    /\ pc = "atomic_write"
    /\ Len(tmpContent) < Len(new)
    /\ Fail({"write"})
    /\ tmpExists' = FALSE /\ tmpContent' = <<>>
    /\ UNCHANGED <<opts, optind, mode, args, file, old, new, resolved, decided,
                   targetExists, targetContent, dirsMade, origVars, mergeVars>>

\* the rename of the complete temporary file over the target; "Done!", Ok(0)
AtomicRename ==
    /\ pc = "atomic_write"
    /\ tmpContent = new
    /\ \E r \in Outcomes :
         IF r = "Ok"
         THEN /\ targetExists' = TRUE /\ targetContent' = tmpContent
              /\ pc' = "done" /\ outcome' = "ok"
              /\ UNCHANGED conds
         ELSE /\ Fail({"rename"})
              /\ UNCHANGED <<targetExists, targetContent>>
    /\ tmpExists' = FALSE /\ tmpContent' = <<>>
    /\ UNCHANGED <<opts, optind, mode, args, file, old, new, resolved, decided,
                   dirsMade, origVars, mergeVars>>

NextUpdate ==
    \/ FileMode \/ global_ignore_file \/ internal_ignore_file \/ root_ignore_file
    \/ ReadToString \/ Merge \/ NothingToDo \/ BeginWrite
    \/ AtomicCreateTmp \/ AtomicWriteChunk \/ AtomicWriteFail \/ AtomicRename

Next ==
    \/ ParseModeOpt \/ ParseHelp \/ ParseError \/ NoPatterns \/ CallUpdate
    \/ NextUpdate

\* the filesystem and the results before the run
Fresh ==
    /\ file = <<>> /\ dirsMade = FALSE
    /\ targetExists = origExists /\ targetContent = origContent
    /\ old = <<>> /\ new = <<>> /\ again = <<>> /\ permArgs = <<>> /\ perm = <<>>
    /\ tmpExists = FALSE /\ tmpContent = <<>>
    /\ outcome = "running" /\ conds = {} /\ resolved = 0 /\ decided = FALSE

\* the texts and pattern lists of the command lines of the model
CliTexts == {<<>>, <<97, NL>>, <<Hash, NL, 97>>}
CliPatterns == {<<>>, <<<<97>>>>, <<<<Hash>>>>, <<<<Bang, 97>>, <<Hash>>>>}

\* a command line: at most MaxFlags options, then the patterns
Init ==
    /\ opts \in UNION {[1..k -> OptTokens] : k \in 0..MaxFlags}
    /\ args \in CliPatterns
    /\ origExists \in BOOLEAN
    /\ origContent \in IF origExists THEN CliTexts ELSE {<<>>}
    /\ pc = "parse" /\ optind = 0 /\ mode = DefaultMode
    /\ Fresh

Spec == Init /\ [][Next]_vars

Modes == {DefaultMode, Global, Internal, Root}

\* update(mode, args) is entered with a mode, a non-empty pattern list and
\* a target that is absent or holds a text: every mode with the texts of
\* the command lines above, and the default mode with every text and
\* pattern list of at most MaxTotalLen characters
InitUpdate ==
    /\ \/ /\ mode \in Modes
          /\ args \in CliPatterns \ {<<>>}
          /\ origExists \in BOOLEAN
          /\ origContent \in IF origExists THEN CliTexts ELSE {<<>>}
       \/ /\ mode = DefaultMode
          /\ \E s \in Strs(MaxTotalLen), k \in 1..MaxPats :
               \E c \in CutLists(s, k) :
                  /\ origContent = TextOf(s, c)
                  /\ args = PatsOf(s, k, c)
          /\ origExists \in IF origContent = <<>> THEN BOOLEAN ELSE {TRUE}
    /\ opts = <<>> /\ optind = 0
    /\ pc = "get_file"
    /\ Fresh

SpecUpdate == InitUpdate /\ [][NextUpdate]_vars

----------------------------------------------------------------------------
(* The canonical form the claims compare merge with *)

\* the trimmed, non-empty, non-comment strings among the lines of T and the
\* elements of P
PatternSet(T, P) ==
    {x \in {trim(y) : y \in Range(lines(T)) \cup Range(P)} :
        x # <<>> /\ ~starts_with(x, Hash)}

\* x comes before y: patterns not starting with '!' first, each group ascending
KeyLess(x, y) ==
    \/ IsPos(x) /\ IsNeg(y)
    \/ IsNeg(x) = IsNeg(y) /\ StrLess(x, y)

\* the members of S in that order, each followed by one newline
RECURSIVE OrderedOutput(_)
OrderedOutput(S) ==
    IF S = {} THEN <<>>
    ELSE LET m == CHOOSE x \in S : \A y \in S \ {x} : KeyLess(x, y)
         IN  m \o <<NL>> \o OrderedOutput(S \ {m})

IsCanonical(T) == T = OrderedOutput(PatternSet(T, <<>>))

Merged == pc \in {"again", "perm", "finished"}

----------------------------------------------------------------------------
(* Claims about merge, under SpecMerge *)

\* C1: merge(merge(T, P), []) equals merge(T, P) for every text T and every
\* list P of arbitrary pattern strings.
C1_Idempotent == pc \in {"perm", "finished"} => again = new

\* C3: no line of merge(T, P) is empty after trimming or starts with '#'.
C3_NoBlankNoComment ==
    Merged => \A i \in 1..Len(lines(new)) :
                 /\ trim(lines(new)[i]) # <<>>
                 /\ ~starts_with(lines(new)[i], Hash)

\* C4: in merge(T, P) every line that does not start with '!' comes before
\* every line that starts with '!'.
C4_NegationLast ==
    Merged => \A i, j \in 1..Len(lines(new)) :
                 i < j => ~(IsNeg(lines(new)[i]) /\ IsPos(lines(new)[j]))

\* C7: merge(T, P') equals merge(T, P) for every rearrangement P' of P (another
\* order, a pattern repeated), whatever order the set is iterated in.
C7_OrderIndependent == pc = "finished" => perm = new

\* two different patterns that are kept, merged in another order
C7_Witness ==
    /\ pc = "finished"
    /\ permArgs # args
    /\ Len(args) = 2
    /\ Cardinality(PatternSet(<<>>, args)) = 2

\* C10: merge(T, P) is the rendering of the set S of trimmed, non-empty,
\* non-comment strings of T's lines and P: the members not starting with '!'
\* ascending, then those starting with '!' ascending, no duplicates, each
\* followed by one newline; it is empty exactly when S is empty.
C10_Canonical ==
    Merged => /\ new = OrderedOutput(PatternSet(old, args))
              /\ (new = <<>>) <=> (PatternSet(old, args) = {})

\* a merge of a text and patterns with a repeated string, a negation and
\* another pattern
C10_Witness ==
    /\ Merged
    /\ \E x \in PatternSet(old, args) : IsNeg(x)
    /\ \E x \in PatternSet(old, args) : IsPos(x)
    /\ old # <<>> /\ args # <<>>

----------------------------------------------------------------------------
(* Claims about the run of update, under SpecUpdate *)

\* every pattern, trimmed, is among the lines of the existing text
AllPresent(T, P) ==
    /\ P # <<>>
    /\ \A i \in 1..Len(P) : trim(P[i]) \in Range(lines(T))

NoWrite == ~decided /\ targetContent = origContent /\ ~tmpExists

\* C2 as stated: if the file exists with text T and every pattern of the
\* non-empty P, trimmed, is among the lines of T, update never writes.
C2_NoOpDetection == (origExists /\ AllPresent(origContent, args)) => NoWrite

\* C2 amended: the same when T is already in merge's canonical form.
C2_NoOpCanonical ==
    (origExists /\ IsCanonical(origContent) /\ AllPresent(origContent, args))
        => NoWrite

\* a finished run on a canonical text that holds every pattern
C2_Witness ==
    /\ origExists /\ IsCanonical(origContent) /\ AllPresent(origContent, args)
    /\ pc = "done" /\ outcome = "ok"

\* C5: once update has decided to write, the target holds the complete
\* original text or the complete new text at every point; after a failed
\* write it holds the original, after a successful one the new text.
C5_AtomicOverwrite ==
    decided =>
        /\ targetExists
        /\ targetContent \in {origContent, new}
        /\ outcome = "error" => targetContent = origContent
        /\ outcome = "ok" => targetContent = new

\* a write that failed while the content was written or at the rename, with a
\* non-empty original and a non-empty new text
C5_Witness ==
    /\ decided /\ outcome = "error"
    /\ conds \cap {"write", "rename"} # {}
    /\ origContent # <<>> /\ new # <<>>

\* C6 as stated: before update has decided to write, the target is as it was
\* before the run (an absent file stays absent).
C6_UntouchedBeforeDecision ==
    ~decided => (targetExists = origExists /\ targetContent = origContent)

\* C6 amended: resolution never creates or modifies the target; before the
\* decision to write, the only change is that the initial read creates an
\* absent target as an empty file; the content of an existing target is
\* not modified.
C6_OnlyReadCreates ==
    ~decided =>
        /\ targetContent = origContent
        /\ origExists => targetExists
        /\ pc \in {"get_file", "read"} => targetExists = origExists
        /\ targetExists # origExists => "read_not_found" \in conds

\* a run without change that found the target absent and left it empty
C6_Witness ==
    /\ ~decided /\ pc = "done" /\ outcome = "ok"
    /\ ~origExists /\ targetExists /\ targetContent = <<>>

\* the two conditions the run recovers from
Recovered == {"read_not_found", "config_not_found"}

Fatal == conds \ Recovered # {}

\* C9: every error condition other than file-not-found on the initial read
\* and setting-not-found in the configuration store ends the run with an
\* error, and no step follows it; those two alone do not end the run.
C9_ErrorPropagation ==
    /\ [](Fatal => (pc = "done" /\ outcome = "error"))
    /\ [](outcome = "error" => Fatal)
    /\ [][~Fatal]_vars

\* a store error other than setting-not-found ended the run
C9_Witness ==
    /\ "config_other" \in conds
    /\ pc = "done" /\ outcome = "error"
    /\ file = <<>> /\ new = <<>> /\ ~decided

----------------------------------------------------------------------------
(* Claims about the command line, under Spec *)

UpdateCalled == pc = "get_file" \/ resolved > 0

\* the mode of the last mode-setting option, the default without one
LastMode(o) ==
    LET idx == {i \in 1..Len(o) : o[i].flag \in ModeFlags}
    IN  IF idx = {} THEN DefaultMode
        ELSE ModeOf(o[CHOOSE i \in idx : \A j \in idx : j <= i])

\* C8: the mode handed to update is the one of the last mode-setting option,
\* the default without one, and get_file resolves exactly one mode in a run.
C8_LastWins ==
    /\ UpdateCalled => mode = LastMode(opts)
    /\ resolved <= 1
    /\ (UpdateCalled /\ pc # "get_file") => resolved = 1

\* update ran after two options that set different modes
C8_Witness ==
    /\ UpdateCalled /\ resolved = 1
    /\ Len(opts) = 2
    /\ opts[1].flag \in ModeFlags /\ opts[2].flag \in ModeFlags
    /\ ModeOf(opts[1]) # ModeOf(opts[2])

====
